---- MODULE Spec2Model ----
(***************************************************************************)
(* A model of src/src/components/ChatWindow.vue: the chat component's      *)
(* message list, its persistence, sendMessage, clearHistory and the        *)
(* event-stream reducer handleStream.                                      *)
(*                                                                         *)
(* Texts are TLA+ strings.  The byte alphabet of a response body is ASCII  *)
(* (letters, digits, space, tab, newline, carriage return, form feed and   *)
(* the printable punctuation), each byte standing for itself, except for   *)
(* five characters that stand for something else: "<" stands for the lead  *)
(* byte 0xC3 and ">" for the continuation byte 0xA9 of one two-byte UTF-8  *)
(* character, and "^" for the control byte 0x08.  After decoding, "@"      *)
(* stands for that two-byte character (U+00E9), "?" for the replacement    *)
(* character U+FFFD and "^" for U+0008.  The ASCII characters < > ? @ ^    *)
(* and the grave accent themselves are not in the alphabet.                *)
(***************************************************************************)
EXTENDS Integers, Sequences, FiniteSets, TLC

(***************************************************************************)
(* Text helpers                                                            *)
(***************************************************************************)

\* s[i] as a one-character string, "" beyond the end of s
Chr(s, i) == IF i >= 1 /\ i <= Len(s) THEN SubSeq(s, i, i) ELSE ""

\* String.prototype.startsWith
StartsWith(s, p) == Len(s) >= Len(p) /\ SubSeq(s, 1, Len(p)) = p

\* String.prototype.slice(n) for 0 <= n
Slice(s, n) == SubSeq(s, n + 1, Len(s))

\* the index of the first character of s at or after i that is in cs,
\* Len(s) + 1 when there is none
IndexFrom(s, cs, i) ==
  LET hits == {k \in i..Len(s) : SubSeq(s, k, k) \in cs}
  IN  IF hits = {} THEN Len(s) + 1 ELSE CHOOSE k \in hits : \A j \in hits : k <= j

\* F(x), with x evaluated once
Bind(x, F(_)) == CHOOSE v \in {F(r) : r \in {x}} : TRUE

\* piece(lo) \o ... \o piece(hi), by halves
RECURSIVE ConcatMap(_, _, _)
ConcatMap(piece(_), lo, hi) ==
  IF lo > hi THEN ""
  ELSE IF lo = hi THEN piece(lo)
  ELSE LET mid == (lo + hi) \div 2
       IN  ConcatMap(piece, lo, mid) \o ConcatMap(piece, mid + 1, hi)

\* s from i on, with each character that is in cs replaced by piece(k), k
\* its index
RECURSIVE Replace(_, _, _, _)
Replace(s, cs, piece(_), i) ==
  Bind(IndexFrom(s, cs, i), LAMBDA j :
    IF j > Len(s) THEN SubSeq(s, i, Len(s))
    ELSE SubSeq(s, i, j - 1) \o piece(j) \o Replace(s, cs, piece, j + 1))

\* String.prototype.split('\n'): the pieces between newlines, <<"">> for ""
RECURSIVE SplitLines(_)
SplitLines(s) ==
  LET k == IndexFrom(s, {"\n"}, 1)
  IN  IF k > Len(s) THEN <<s>>
      ELSE <<SubSeq(s, 1, k - 1)>> \o SplitLines(SubSeq(s, k + 1, Len(s)))

\* a sendMessage that takes any input
NeverBlank(s) == FALSE

\* the characters of the alphabet that String.prototype.trim() strips
\* (WhiteSpace and LineTerminator)
TrimSpace == {" ", "\t", "\n", "\r", "\f"}

\* String.prototype.trim() = '' : every character of s is one trim strips
IsBlank(s) == \A i \in 1..Len(s) : SubSeq(s, i, i) \in TrimSpace

(***************************************************************************)
(* new TextDecoder().decode(value): every call decodes its chunk alone     *)
(* (no {stream: true}), so an incomplete or stray byte of a multi-byte     *)
(* character becomes U+FFFD.                                               *)
(***************************************************************************)
Decode(b) ==
  LET piece(i) ==
        IF SubSeq(b, i, i) = "<" THEN (IF Chr(b, i + 1) = ">" THEN "@" ELSE "?")
        ELSE (IF Chr(b, i - 1) = "<" THEN "" ELSE "?")
  IN  Replace(b, {"<", ">"}, piece, 1)

(***************************************************************************)
(* Values and JSON.parse.  A value of the program is a record tagged by t: *)
(* "undef", "null", "bool" (b), "num" (s: the text Number::toString gives  *)
(* for it), "str" (s), "arr" (items) or "obj" (keys: the names of its own  *)
(* properties in the order the engine lists them, vals: their values).     *)
(* The grammar is JSON's over the model's alphabet.  Two kinds of text     *)
(* parse in the program and have no value here: a \uXXXX escape of a       *)
(* character outside the alphabet, and a number of more than 15            *)
(* significant digits or of a decimal exponent beyond 300 (its nearest     *)
(* double is not computed).                                                *)
(***************************************************************************)
Undef == [t |-> "undef"]
Str(s) == [t |-> "str", s |-> s]
Bool(b) == [t |-> "bool", b |-> b]
EmptyObject == [t |-> "obj", keys |-> <<>>, vals |-> <<>>]
ParseFail == [ok |-> FALSE, v |-> Undef, n |-> 0]
ParseOk(val, next) == [ok |-> TRUE, v |-> val, n |-> next]

Digits == {"0", "1", "2", "3", "4", "5", "6", "7", "8", "9"}

\* the characters JSON.parse skips between tokens
JsonSpace == {" ", "\t", "\n", "\r"}

\* the characters below U+0020, which a string literal may not hold unescaped
ControlChars == {"^", "\t", "\n", "\f", "\r"}

\* the characters that end a run of plain characters of a string literal
StringStops == {"\"", "\\"} \cup ControlChars

RECURSIVE SkipWs(_, _)
SkipWs(s, i) == IF Chr(s, i) \in JsonSpace THEN SkipWs(s, i + 1) ELSE i

\* the end of the run of digits that starts at i
RECURSIVE DigitsEnd(_, _)
DigitsEnd(s, i) == IF Chr(s, i) \in Digits THEN DigitsEnd(s, i + 1) ELSE i

\* the number of zeros d starts with, and ends with
LeadingZeros(d) ==
  LET nz == {k \in 1..Len(d) : SubSeq(d, k, k) # "0"}
  IN  IF nz = {} THEN Len(d) ELSE (CHOOSE k \in nz : \A j \in nz : k <= j) - 1

TrailingZeros(d) ==
  LET nz == {k \in 1..Len(d) : SubSeq(d, k, k) # "0"}
  IN  IF nz = {} THEN Len(d) ELSE Len(d) - (CHOOSE k \in nz : \A j \in nz : k >= j)

\* the value of a hexadecimal digit, -1 for any other character
HexValue(c) ==
  LET hits == {k \in 1..16 : c \in {SubSeq("0123456789abcdef", k, k),
                                    SubSeq("0123456789ABCDEF", k, k)}}
  IN  IF hits = {} THEN -1 ELSE (CHOOSE k \in hits : TRUE) - 1

\* the number a run of decimal digits writes
RECURSIVE DecValue(_)
DecValue(d) ==
  IF d = "" THEN 0
  ELSE DecValue(SubSeq(d, 1, Len(d) - 1)) * 10 + HexValue(SubSeq(d, Len(d), Len(d)))

\* the code unit the four characters from i on write in hexadecimal, -1
\* where one of them is not a hexadecimal digit
CodeUnit(s, i) ==
  LET h(k) == HexValue(Chr(s, i + k))
  IN  IF \E k \in 0..3 : h(k) = -1 THEN -1
      ELSE ((h(0) * 16 + h(1)) * 16 + h(2)) * 16 + h(3)

\* the characters U+0020 to U+007E in order, with a space in the place of
\* each character that is not in the alphabet
Ascii ==
  " !\"#$%&'()*+,-./0123456789:; =   ABCDEFGHIJKLMNOPQRSTUVWXYZ[\\] _ abcdefghijklmnopqrstuvwxyz{|}~"

\* the character of the alphabet whose code unit is n
CharOf(n) ==
  CASE n = 8  -> "^"
    [] n = 9  -> "\t"
    [] n = 10 -> "\n"
    [] n = 12 -> "\f"
    [] n = 13 -> "\r"
    [] n \in 32..126 /\ n \notin {60, 62, 63, 64, 94, 96} -> SubSeq(Ascii, n - 31, n - 31)
    [] n = 233   -> "@"
    [] n = 65533 -> "?"

\* the character a one-letter backslash escape stands for, "" for a letter
\* that is not one
Unescape(c) ==
  CASE c = "\"" -> "\""
    [] c = "\\" -> "\\"
    [] c = "/"  -> "/"
    [] c = "b"  -> "^"
    [] c = "f"  -> "\f"
    [] c = "n"  -> "\n"
    [] c = "r"  -> "\r"
    [] c = "t"  -> "\t"
    [] OTHER    -> ""

\* a string literal whose opening quote is before i; acc is the text read so
\* far (the recursion is on the escapes of the literal)
RECURSIVE ParseStr(_, _, _)
ParseStr(s, i, acc) ==
  Bind(IndexFrom(s, StringStops, i), LAMBDA j :
    IF j > Len(s) \/ Chr(s, j) \in ControlChars THEN ParseFail
    ELSE IF SubSeq(s, j, j) = "\""
      THEN ParseOk([t |-> "str", s |-> acc \o SubSeq(s, i, j - 1)], j + 1)
    ELSE IF Chr(s, j + 1) = "u"
      THEN IF CodeUnit(s, j + 2) = -1 THEN ParseFail
           ELSE ParseStr(s, j + 6, acc \o SubSeq(s, i, j - 1) \o CharOf(CodeUnit(s, j + 2)))
    ELSE IF Unescape(Chr(s, j + 1)) = "" THEN ParseFail
    ELSE ParseStr(s, j + 2, acc \o SubSeq(s, i, j - 1) \o Unescape(Chr(s, j + 1))))

\* Number::toString of the number written with the integer digits int, the
\* fraction digits frac and the exponent digits edigits (negative if eneg):
\* with its k significant digits sig and the value 0.sig * 10^n, plain
\* digits for 0 < n <= 21, "0.00ddd" for -6 < n <= 0, else d.ddde+x.  The
\* text is computed for at most 15 significant digits (a decimal of that
\* many digits names its double, so the shortest digits that name the double
\* are its own) and for n within 300 of 0 (a normal double).
NumberText(neg, int, frac, eneg, edigits) ==
  LET all  == int \o frac
      lead == LeadingZeros(all)
      sig  == IF lead = Len(all) THEN ""
              ELSE SubSeq(all, lead + 1, Len(all) - TrailingZeros(all))
      k    == Len(sig)
      e    == IF LeadingZeros(edigits) = Len(edigits) THEN ""
              ELSE SubSeq(edigits, LeadingZeros(edigits) + 1, Len(edigits))
      n    == Len(int) - lead + (IF eneg THEN 0 - DecValue(e) ELSE DecValue(e))
      zeros(m) == SubSeq("000000000000000000000", 1, m)
  IN  CASE k = 0 -> "0"
        [] k \in 1..15 /\ Len(e) <= 3 /\ n \in -300..300 ->
             (IF neg THEN "-" ELSE "")
             \o (IF k <= n /\ n <= 21 THEN sig \o zeros(n - k)
                 ELSE IF 0 < n /\ n <= 21 THEN SubSeq(sig, 1, n) \o "." \o SubSeq(sig, n + 1, k)
                 ELSE IF -6 < n /\ n <= 0 THEN "0." \o zeros(0 - n) \o sig
                 ELSE SubSeq(sig, 1, 1) \o (IF k = 1 THEN "" ELSE "." \o SubSeq(sig, 2, k))
                      \o (IF n < 1 THEN "e-" \o ToString(1 - n) ELSE "e+" \o ToString(n - 1)))

\* a number literal at i: -? (0 | [1-9][0-9]*) (. [0-9]+)? ([eE] [+-]? [0-9]+)?
ParseNumber(s, i) ==
  LET neg     == Chr(s, i) = "-"
      a       == IF neg THEN i + 1 ELSE i
      b       == IF Chr(s, a) = "0" THEN a + 1 ELSE DigitsEnd(s, a)
      hasFrac == Chr(s, b) = "."
      f       == IF hasFrac THEN DigitsEnd(s, b + 1) ELSE b
      hasExp  == Chr(s, f) \in {"e", "E"}
      x       == IF Chr(s, f + 1) \in {"+", "-"} THEN f + 2 ELSE f + 1
      z       == IF hasExp THEN DigitsEnd(s, x) ELSE f
  IN  IF b = a \/ (hasFrac /\ f = b + 1) \/ (hasExp /\ z = x) THEN ParseFail
      ELSE ParseOk([t |-> "num",
                    s |-> NumberText(neg, SubSeq(s, a, b - 1),
                                     IF hasFrac THEN SubSeq(s, b + 1, f - 1) ELSE "",
                                     hasExp /\ Chr(s, f + 1) = "-",
                                     IF hasExp THEN SubSeq(s, x, z - 1) ELSE "")], z)

\* a < b for the texts of two array indices
DigitsLess(a, b) ==
  \/ Len(a) < Len(b)
  \/ /\ Len(a) = Len(b)
     /\ \E i \in 1..Len(a) :
          /\ SubSeq(a, 1, i - 1) = SubSeq(b, 1, i - 1)
          /\ HexValue(SubSeq(a, i, i)) < HexValue(SubSeq(b, i, i))

\* whether the property name k is an array index: the canonical text of an
\* integer from 0 to 2^32 - 2
IsArrayIndex(k) ==
  /\ Len(k) \in 1..10
  /\ \A i \in 1..Len(k) : SubSeq(k, i, i) \in Digits
  /\ (Len(k) > 1 => SubSeq(k, 1, 1) # "0")
  /\ (Len(k) = 10 => ~DigitsLess("4294967294", k))

\* o after o[k] = v for an object o: an own property keeps its place and
\* takes the value; a new one is listed after the others, except that array
\* indices come first in ascending order
PutProp(o, k, v) ==
  LET at     == {i \in DOMAIN o.keys : o.keys[i] = k}
      before == IF IsArrayIndex(k)
                  THEN Cardinality({i \in DOMAIN o.keys :
                                      IsArrayIndex(o.keys[i]) /\ DigitsLess(o.keys[i], k)})
                  ELSE Len(o.keys)
      ins(q, x) == SubSeq(q, 1, before) \o <<x>> \o SubSeq(q, before + 1, Len(q))
  IN  IF at # {} THEN [o EXCEPT !.vals[CHOOSE i \in at : TRUE] = v]
      ELSE [o EXCEPT !.keys = ins(@, k), !.vals = ins(@, v)]

RECURSIVE ParseValue(_, _)
RECURSIVE ParseElems(_, _, _)
RECURSIVE ParseMembers(_, _, _)

\* the value that starts at i (the first character after any whitespace)
ParseValue(s, i) ==
  LET c == Chr(s, i)
  IN  CASE c = "\"" -> ParseStr(s, i + 1, "")
        [] c = "{" ->
             LET j == SkipWs(s, i + 1)
             IN  IF Chr(s, j) = "}"
                   THEN ParseOk(EmptyObject, j + 1)
                   ELSE ParseMembers(s, j, EmptyObject)
        [] c = "[" ->
             LET j == SkipWs(s, i + 1)
             IN  IF Chr(s, j) = "]"
                   THEN ParseOk([t |-> "arr", items |-> <<>>], j + 1)
                   ELSE ParseElems(s, j, <<>>)
        [] c = "-" \/ c \in Digits -> ParseNumber(s, i)
        [] c = "t" /\ i + 3 <= Len(s) /\ SubSeq(s, i, i + 3) = "true" ->
             ParseOk([t |-> "bool", b |-> TRUE], i + 4)
        [] c = "f" /\ i + 4 <= Len(s) /\ SubSeq(s, i, i + 4) = "false" ->
             ParseOk([t |-> "bool", b |-> FALSE], i + 5)
        [] c = "n" /\ i + 3 <= Len(s) /\ SubSeq(s, i, i + 3) = "null" ->
             ParseOk([t |-> "null"], i + 4)
        [] OTHER -> ParseFail

\* the elements of an array from i on, after those in items
ParseElems(s, i, items) ==
  Bind(ParseValue(s, i), LAMBDA r :
    IF ~r.ok THEN ParseFail
    ELSE Bind(SkipWs(s, r.n), LAMBDA j :
      IF Chr(s, j) = ","
        THEN ParseElems(s, SkipWs(s, j + 1), Append(items, r.v))
      ELSE IF Chr(s, j) = "]"
        THEN ParseOk([t |-> "arr", items |-> Append(items, r.v)], j + 1)
      ELSE ParseFail))

\* the value of a member whose key's literal ends before i
MemberValue(s, i) ==
  Bind(SkipWs(s, i), LAMBDA c :
    IF Chr(s, c) = ":" THEN ParseValue(s, SkipWs(s, c + 1)) ELSE ParseFail)

\* the members of an object from i on, added to the object o of those read
\* so far: a name written twice is one property with the later value
ParseMembers(s, i, o) ==
  Bind(IF Chr(s, i) = "\"" THEN ParseStr(s, i + 1, "") ELSE ParseFail, LAMBDA k :
    IF ~k.ok THEN ParseFail
    ELSE Bind(MemberValue(s, k.n), LAMBDA r :
      IF ~r.ok THEN ParseFail
      ELSE Bind(SkipWs(s, r.n), LAMBDA j :
        IF Chr(s, j) = ","
          THEN ParseMembers(s, SkipWs(s, j + 1), PutProp(o, k.v.s, r.v))
        ELSE IF Chr(s, j) = "}"
          THEN ParseOk(PutProp(o, k.v.s, r.v), j + 1)
        ELSE ParseFail)))

\* JSON.parse(data): ok is FALSE where JSON.parse throws a SyntaxError
JSONParse(data) ==
  Bind(ParseValue(data, SkipWs(data, 1)), LAMBDA r :
    IF r.ok /\ SkipWs(data, r.n) = Len(data) + 1 THEN r ELSE ParseFail)

(***************************************************************************)
(* parsed.choices[0].delta.content, `if (content)` and                     *)
(* `currentMessage += content`                                             *)
(***************************************************************************)
Nullish(v) == v.t \in {"undef", "null"}

\* v.k of a non-nullish v, for a name k that no prototype defines (choices,
\* delta, content, role, isPlaying, audioUrl, and "0" on an object)
GetProp(v, k) ==
  IF v.t = "obj" /\ \E i \in DOMAIN v.keys : v.keys[i] = k
    THEN v.vals[CHOOSE i \in DOMAIN v.keys : v.keys[i] = k]
    ELSE Undef

\* v[0] of a non-nullish v
GetIndex0(v) ==
  CASE v.t = "arr" -> IF v.items = <<>> THEN Undef ELSE v.items[1]
    [] v.t = "str" -> IF v.s = "" THEN Undef ELSE [t |-> "str", s |-> Chr(v.s, 1)]
    [] v.t = "obj" -> GetProp(v, "0")
    [] OTHER -> Undef

\* parsed.choices[0].delta.content: threw where a property of undefined or
\* null is read (a TypeError)
DeltaContent(parsed) ==
  LET choices == GetProp(parsed, "choices")
      first   == GetIndex0(choices)
      delta   == GetProp(first, "delta")
  IN  IF Nullish(parsed) \/ Nullish(choices) \/ Nullish(first) \/ Nullish(delta)
        THEN [threw |-> TRUE, v |-> Undef]
        ELSE [threw |-> FALSE, v |-> GetProp(delta, "content")]

\* a reducer that appends whatever content it finds
AnyContent(v) == TRUE

\* the truthiness `if (content)` tests
Truthy(v) ==
  CASE v.t \in {"undef", "null"} -> FALSE
    [] v.t = "bool" -> v.b
    [] v.t = "num"  -> v.s # "0"
    [] v.t = "str"  -> v.s # ""
    [] OTHER -> TRUE

\* whether `currentMessage += content` throws a TypeError: the conversion to
\* a primitive calls valueOf (which returns the object itself) and toString,
\* and an object parsed with a member named toString has a toString that is
\* not callable; Array.prototype.join converts each element that is not null
\* the same way
RECURSIVE ConcatThrows(_)
ConcatThrows(v) ==
  CASE v.t = "obj" -> \E i \in DOMAIN v.keys : v.keys[i] = "toString"
    [] v.t = "arr" -> \E i \in DOMAIN v.items : ConcatThrows(v.items[i])
    [] OTHER -> FALSE

\* the text `+=` appends for a value on which it does not throw
RECURSIVE ToStr(_)
RECURSIVE JoinItems(_, _)
ToStr(v) ==
  CASE v.t = "str"   -> v.s
    [] v.t = "num"   -> v.s
    [] v.t = "bool"  -> IF v.b THEN "true" ELSE "false"
    [] v.t = "null"  -> "null"
    [] v.t = "undef" -> "undefined"
    [] v.t = "arr"   -> JoinItems(v.items, 1)
    [] v.t = "obj"   -> "[object Object]"

\* Array.prototype.join(','): a null or undefined element joins as ''
JoinItems(items, i) ==
  IF i > Len(items) THEN ""
  ELSE (IF Nullish(items[i]) THEN "" ELSE ToStr(items[i]))
       \o (IF i < Len(items) THEN "," ELSE "")
       \o JoinItems(items, i + 1)

(***************************************************************************)
(* The message list and its persistence.  A message is the object the list *)
(* holds, a value tagged "obj" with its own properties in keys and vals.   *)
(* owner is not a property of the program's object: it names the           *)
(* sendMessage call that pushed the message as its placeholder (0 for      *)
(* every other message).                                                   *)
(***************************************************************************)

\* systemPrompt (a short stand-in for the prompt's text)
systemPrompt == "system prompt"

\* the object literal { role, content }
Message(role, content, owner) ==
  [t |-> "obj", keys |-> <<"role", "content">>, vals |-> <<Str(role), Str(content)>>,
   owner |-> owner]

\* the object URL that URL.createObjectURL returns for its n-th blob
BlobUrl(n) == "blob:" \o ToString(n)

\* m.isPlaying = b: the assignment creates the property where m has none
SetIsPlaying(m, b) == PutProp(m, "isPlaying", Bool(b))

\* m.audioUrl = the n-th object URL
SetAudioUrl(m, n) == PutProp(m, "audioUrl", Str(BlobUrl(n)))

\* m.content = buf
SetContent(m, buf) == PutProp(m, "content", Str(buf))

\* `if (m.isPlaying)`
IsPlaying(m) == Truthy(GetProp(m, "isPlaying"))

\* `if (m.audioUrl)`
HasAudio(m) == Truthy(GetProp(m, "audioUrl"))

\* m.role === r
HasRole(m, r) == GetProp(m, "role") = Str(r)

SystemMessage == Message("system", systemPrompt, 0)

\* a string's JSON text without the quotes, as JSON.stringify escapes it
Escape(s) ==
  LET piece(i) ==
        LET c == SubSeq(s, i, i)
        IN  CASE c = "\"" -> "\\\""
              [] c = "\\" -> "\\\\"
              [] c = "\n" -> "\\n"
              [] c = "\t" -> "\\t"
              [] c = "\r" -> "\\r"
              [] c = "\f" -> "\\f"
              [] c = "^"  -> "\\b"
  IN  Replace(s, StringStops, piece, 1)

\* JSON.stringify of a value that JSON.parse or the program made: an object
\* writes its own properties in their order
RECURSIVE JsonText(_)
JsonText(v) ==
  LET item(i)   == JsonText(v.items[i]) \o (IF i < Len(v.items) THEN "," ELSE "")
      member(i) == "\"" \o Escape(v.keys[i]) \o "\":" \o JsonText(v.vals[i])
                   \o (IF i < Len(v.keys) THEN "," ELSE "")
  IN  CASE v.t = "str"  -> "\"" \o Escape(v.s) \o "\""
        [] v.t = "num"  -> v.s
        [] v.t = "bool" -> IF v.b THEN "true" ELSE "false"
        [] v.t = "null" -> "null"
        [] v.t = "arr"  -> "[" \o ConcatMap(item, 1, Len(v.items)) \o "]"
        [] v.t = "obj"  -> "{" \o ConcatMap(member, 1, Len(v.keys)) \o "}"

\* JSON.stringify(messages.value)
Stringify(msgs) == JsonText([t |-> "arr", items |-> msgs])

\* localStorage's 'chatHistory' item: "" when there is no item
NoItem == ""

\* saveMessages(): the text stored for the list msgs
saveMessages(msgs) == Stringify(msgs)

\* the message that an object of the stored list is
MessageOf(v) == [t |-> "obj", keys |-> v.keys, vals |-> v.vals, owner |-> 0]

\* messages.value after onMounted has found item stored: without an item the
\* system message; with an item that JSON.parse rejects the ref's initial
\* empty list (onMounted throws before it assigns); with the text of a list
\* of objects that list.  (An item that is JSON of another shape has no
\* value here: the template does not render every such value.)
Mounted(item) ==
  IF item = NoItem THEN <<SystemMessage>>
  ELSE Bind(JSONParse(item), LAMBDA r :
         CASE ~r.ok -> <<>>
           [] r.ok /\ r.v.t = "arr" /\ (\A i \in DOMAIN r.v.items : r.v.items[i].t = "obj") ->
                [i \in DOMAIN r.v.items |-> MessageOf(r.v.items[i])])

\* a list the program stores: an exchange whose answer had the playback
\* fields p (isPlaying) and u (audioUrl) when it was saved, the object URL
\* kept by textToSpeech before playAudio set isPlaying
Loaded(p, u) ==
  LET a0 == Message("assistant", "Hello", 0)
      a1 == IF u = 0 THEN a0 ELSE SetAudioUrl(a0, u)
      a2 == IF p = "undefined" THEN a1 ELSE SetIsPlaying(a1, p = "true")
  IN  <<SystemMessage, Message("user", "hi", 0), a2>>

(***************************************************************************)
(* handleStream: one chunk                                                 *)
(***************************************************************************)

\* An entry of a call's trace: what handleStream did, in order.  e is
\*   "line"     the for loop took line x
\*   "parse"    JSON.parse(x) was called
\*   "caught"   the inner catch logged a failure on payload x
\*   "update"   messages[i].content was set to x
\*   "save"     saveMessages() stored x
\*   "scroll"   scrollToBottom() was called
\*   "complete" textToSpeech(x, i) was called at end-of-data
\*   "readfail" the outer catch logged a failed read
\* and cur is currentMessage at that moment.
Ev(e, x, buf, i) == [e |-> e, x |-> x, cur |-> buf, i |-> i]

\* line.startsWith('data: ')
HasDataPrefix(line) == StartsWith(line, "data: ")

\* line.slice(6)
Payload(line) == Slice(line, 6)

\* a reducer that passes the sentinel on to JSON.parse
NeverSentinel(data) == FALSE

\* data === '[DONE]'
IsSentinel(data) == data = "[DONE]"

\* a reducer that puts the delta in front: currentMessage = content + currentMessage
AccumulateInFront(buf, content) == ToStr(content) \o buf

\* a reducer that keeps the delta alone: currentMessage = content
AccumulateDeltaOnly(buf, content) == ToStr(content)

\* currentMessage += content
Accumulate(buf, content) == buf \o ToStr(content)

\* a reducer whose catch is outside the for loop: a failure ends the chunk
AfterCaughtAbort(lines, i) == Len(lines) + 1

\* the line the for loop takes after the inner catch has logged a failure
\* on line i: the catch is inside the loop, so the next one
AfterCaught(lines, i) == i + 1

\* a reducer that scrolls before it persists
DeltaEffectsScrollFirst(buf, msgs, last) ==
  <<Ev("update", buf, buf, last),
    Ev("scroll", "", buf, 0),
    Ev("save", saveMessages(msgs), buf, 0)>>

\* what an applied delta does, in the order of the code: write the buffer to
\* the last message, saveMessages(), await scrollToBottom()
DeltaEffects(buf, msgs, last) ==
  <<Ev("update", buf, buf, last),
    Ev("save", saveMessages(msgs), buf, 0),
    Ev("scroll", "", buf, 0)>>

\* the body of `for (const line of lines)` for one line, on the state
\* st = [cur, msgs, store, log] (currentMessage, messages.value, the stored
\* item, the call's trace); caught tells whether the inner catch ran (on a
\* payload JSON.parse rejects, a missing choices[0].delta, a content that
\* `+=` cannot convert, or, after the `+=`, a list without a last message)
LineStep(st, line) ==
  Bind(Payload(line), LAMBDA data :
  LET s0 == [st EXCEPT !.log = Append(@, Ev("line", line, st.cur, 0))]
      s1 == [s0 EXCEPT !.log = Append(@, Ev("parse", data, st.cur, 0))]
      last == Len(st.msgs)
  IN  IF ~HasDataPrefix(line) THEN [st |-> s0, caught |-> FALSE]
      ELSE IF IsSentinel(data) THEN [st |-> s0, caught |-> FALSE]
      ELSE Bind(JSONParse(data), LAMBDA p : Bind(DeltaContent(p.v), LAMBDA d :
        IF ~p.ok \/ d.threw
          THEN [st |-> [s1 EXCEPT !.log = Append(@, Ev("caught", data, st.cur, 0))],
                caught |-> TRUE]
        ELSE IF ~Truthy(d.v) THEN [st |-> s1, caught |-> FALSE]
        ELSE IF ConcatThrows(d.v)
          THEN [st |-> [s1 EXCEPT !.log = Append(@, Ev("caught", data, st.cur, 0))],
                caught |-> TRUE]
        ELSE Bind(Accumulate(st.cur, d.v), LAMBDA buf :
          IF last = 0
            THEN [st |-> [s1 EXCEPT !.cur = buf,
                                    !.log = Append(@, Ev("caught", data, buf, 0))],
                  caught |-> TRUE]
          ELSE Bind([st.msgs EXCEPT ![last] = SetContent(@, buf)], LAMBDA msgs :
            [st |-> [cur |-> buf,
                     msgs |-> msgs,
                     store |-> saveMessages(msgs),
                     log |-> s1.log \o DeltaEffects(buf, msgs, last)],
             caught |-> FALSE])))))

\* the for loop from line i on
RECURSIVE ProcessLines(_, _, _)
ProcessLines(st, lines, i) ==
  IF i > Len(lines) THEN st
  ELSE Bind(lines[i], LAMBDA line : Bind(LineStep(st, line), LAMBDA r :
         ProcessLines(r.st, lines, IF r.caught THEN AfterCaught(lines, i) ELSE i + 1)))

\* one turn of the while loop on a chunk of bytes: decode, split, loop
ProcessChunk(st, value) ==
  Bind(Decode(value), LAMBDA chunk :
    Bind(SplitLines(chunk), LAMBDA lines : ProcessLines(st, lines, 1)))

(***************************************************************************)
(* Response bodies.  A body is described by its frames, each a record      *)
(* [k, x]: k = "delta" carries the text delta x; for k = "done" (the       *)
(* sentinel), "malformed" (a data line whose payload is not JSON or lacks  *)
(* choices[0].delta), "nodelta" (a well-formed frame without text) and     *)
(* "other" (a line without the data prefix) x is the line itself.          *)
(***************************************************************************)
Frame(k, x) == [k |-> k, x |-> x]

\* UTF-8 of a text: "@" takes the two bytes "<" ">"
EncodeUtf8(s) ==
  LET piece(i) == "<>"
  IN  Replace(s, {"@"}, piece, 1)

\* the line of a frame, as the chat-completion API writes it
FrameLine(f) ==
  IF f.k = "delta"
    THEN "data: {\"choices\":[{\"delta\":{\"content\":\"" \o Escape(f.x) \o "\"}}]}"
    ELSE f.x

\* the bytes of a sequence of frames, one line each
RECURSIVE BodyBytes(_)
BodyBytes(fs) ==
  IF fs = <<>> THEN ""
  ELSE EncodeUtf8(FrameLine(Head(fs))) \o "\n" \o BodyBytes(Tail(fs))

Done == Frame("done", "data: [DONE]")

\* every way of delivering the frames fs in chunks of whole lines
RECURSIVE LineChunkings(_)
LineChunkings(fs) ==
  IF fs = <<>> THEN {<<>>}
  ELSE UNION {{<<BodyBytes(SubSeq(fs, 1, k))>> \o rest :
                 rest \in LineChunkings(SubSeq(fs, k + 1, Len(fs)))} :
              k \in 1..Len(fs)}

\* every way of cutting the bytes b into at least one and at most n chunks
RECURSIVE ByteChunkings(_, _)
ByteChunkings(b, n) ==
  IF b = "" THEN {<<>>}
  ELSE {<<b>>} \cup
       (IF n <= 1 THEN {}
        ELSE UNION {{<<SubSeq(b, 1, k)>> \o rest :
                       rest \in ByteChunkings(SubSeq(b, k + 1, Len(b)), n - 1)} :
                    k \in 1..(Len(b) - 1)})

(***************************************************************************)
(* State                                                                   *)
(***************************************************************************)
MaxCalls == 2

MaxClears == 1

Calls == 1..MaxCalls

VARIABLES
  messages,      \* messages.value
  inputMessage,  \* inputMessage.value
  isLoading,     \* isLoading.value
  chatHistory,   \* localStorage's 'chatHistory' item, NoItem when absent
  audio,         \* the <audio> element: src, the index onended closes over, playing
  urls,          \* the number of the last object URL created
  alerts,        \* the alert() notices raised so far, oldest first
  envOk,         \* whether VITE_OPENAI_API_URL and VITE_OPENAI_API_KEY are set
  ncalls,        \* the number of sendMessage calls that passed the blank check
  pc,            \* per call: where the call is suspended
  cur,           \* per call: handleStream's currentMessage
  reader,        \* per call: the chunks reader.read() has yet to deliver
  ttsIdx,        \* per call: textToSpeech's messageIndex
  nclears,       \* the number of clearHistory calls so far
  trace,         \* per call: what handleStream has done so far
  caught,        \* per call: whether sendMessage's catch block ran
  frames,        \* per call: the frames of the response body
  clicks         \* the play-button clicks so far: messageIndex, speech request pending

vars == <<messages, inputMessage, isLoading, chatHistory, audio, urls, alerts, envOk,
          ncalls, nclears, pc, cur, reader, ttsIdx, trace, caught, frames, clicks>>

\* the <audio> element before playAudio has touched it
NoAudio == [src |-> "", onended |-> 0, playing |-> FALSE]

\* Object URLs live as long as the document that created them: "blob:1" to
\* "blob:EarlierUrls" are the URLs a stored history can hold, created in an
\* earlier session and dead by now; those of this session follow them.
EarlierUrls == 1

\* whether src is an object URL of this session, whose latest is "blob:last"
Live(src, last) == \E n \in (EarlierUrls + 1)..last : src = BlobUrl(n)

\* what play() may do with the address src (TRUE: the audio plays): an object
\* URL of this session plays, any other object URL is dead, and whether
\* another address plays is for the network to decide
Plays(src, last) ==
  IF Live(src, last) THEN {TRUE}
  ELSE IF StartsWith(src, "blob:") THEN {FALSE}
  ELSE BOOLEAN

\* a call is running between its request and its return
Running(c) == pc[c] \in {"fetch", "read", "ttsFetch"}

(***************************************************************************)
(* Audio playback                                                          *)
(***************************************************************************)

\* stopPlaying(messageIndex) with a number, on a list that has that index
stopPlaying(msgs, idx) == [msgs EXCEPT ![idx] = SetIsPlaying(@, FALSE)]

\* a playAudio that starts a message without stopping the others
StopNone(msgs, idx) == msgs

\* playAudio's forEach: stopPlaying(index) for every playing message other
\* than messageIndex
StopOthers(msgs, idx) ==
  [i \in DOMAIN msgs |->
     IF IsPlaying(msgs[i]) /\ i # idx
       THEN SetIsPlaying(msgs[i], FALSE)
       ELSE msgs[i]]

\* playAudio(audioUrl, messageIndex) on the list msgs and the audio element
\* aud, where play() has the outcome live: stop every other playing message
\* (stopPlaying pauses the audio), set src (the assignment converts url to
\* a string, and throws where `+=` would), set onended, start the audio
\* (play() rejects, unhandled, on what it cannot play), mark the message.
\* threw: a TypeError left playAudio, from the assignment to src or, the
\* audio started, from a messages[messageIndex] that is undefined.
playAudio(msgs, aud, url, idx, live) ==
  LET stopped == StopOthers(msgs, idx)
      paused  == IF \E i \in DOMAIN msgs : IsPlaying(msgs[i]) /\ i # idx
                   THEN [aud EXCEPT !.playing = FALSE]
                   ELSE aud
  IN  IF ConcatThrows(url)
        THEN [audio |-> paused, msgs |-> stopped, threw |-> TRUE]
        ELSE [audio |-> [src |-> ToStr(url), onended |-> idx, playing |-> live],
              msgs  |-> IF idx \in DOMAIN msgs
                          THEN [stopped EXCEPT ![idx] = SetIsPlaying(@, TRUE)]
                          ELSE stopped,
              threw |-> idx \notin DOMAIN msgs]

\* textToSpeech(text, idx) from its start to its fetch (fetches) or to its
\* return: stop the message if it is playing, play its audio if it has one,
\* else ask for speech; a TypeError (no message at idx, or one thrown by
\* playAudio) lands in the catch, which alerts.  who is the sendMessage call
\* whose handleStream made the call, 0 for the play button.
textToSpeech(idx, who, fetches) ==
  IF idx \notin DOMAIN messages
    THEN /\ ~fetches
         /\ alerts' = Append(alerts, [kind |-> "speech", call |-> who])
         /\ UNCHANGED <<messages, audio>>
  ELSE IF IsPlaying(messages[idx])
    THEN /\ ~fetches
         /\ messages' = stopPlaying(messages, idx)
         /\ audio' = [audio EXCEPT !.playing = FALSE]
         /\ UNCHANGED alerts
  ELSE IF HasAudio(messages[idx])
    THEN /\ ~fetches
         /\ \E live \in Plays(ToStr(GetProp(messages[idx], "audioUrl")), urls) :
              \E played \in {playAudio(messages, audio, GetProp(messages[idx], "audioUrl"),
                                       idx, live)} :
                /\ messages' = played.msgs
                /\ audio' = played.audio
                /\ alerts' = IF played.threw
                               THEN Append(alerts, [kind |-> "speech", call |-> who])
                               ELSE alerts
  ELSE /\ fetches
       /\ UNCHANGED <<messages, audio, alerts>>

(***************************************************************************)
(* sendMessage.  An action is what runs between two suspensions that wait  *)
(* for the network; `await scrollToBottom()` resolves within the same task *)
(* and lets no event handler in.                                           *)
(***************************************************************************)

\* sendMessage's catch block on the list msgs: pop a last assistant message
CatchBlock(msgs) ==
  IF HasRole(msgs[Len(msgs)], "assistant") THEN SubSeq(msgs, 1, Len(msgs) - 1) ELSE msgs

\* catch and finally of call c
Fail(c) ==
  /\ messages' = CatchBlock(messages)
  /\ alerts' = Append(alerts, [kind |-> "send", call |-> c])
  /\ caught' = [caught EXCEPT ![c] = TRUE]
  /\ isLoading' = FALSE
  /\ pc' = [pc EXCEPT ![c] = "done"]

\* a sendMessage without its finally block
ReturnWithoutFinally(c) ==
  /\ UNCHANGED isLoading
  /\ pc' = [pc EXCEPT ![c] = "done"]

\* handleStream has returned to call c: finally
Return(c) ==
  /\ isLoading' = FALSE
  /\ pc' = [pc EXCEPT ![c] = "done"]

\* sendMessage() from its start to `await fetch(...)` or, without the
\* configuration, to its return
sendMessage ==
  IF IsBlank(inputMessage) THEN UNCHANGED vars
  ELSE LET c == ncalls + 1
           pushed == Append(messages, Message("user", inputMessage, 0))
       IN  /\ ncalls < MaxCalls
           /\ ncalls' = c
           /\ inputMessage' = ""
           /\ IF envOk
                THEN /\ messages' = pushed
                     /\ isLoading' = TRUE
                     /\ pc' = [pc EXCEPT ![c] = "fetch"]
                     /\ UNCHANGED <<alerts, caught>>
                ELSE /\ messages' = CatchBlock(pushed)
                     /\ alerts' = Append(alerts, [kind |-> "send", call |-> c])
                     /\ caught' = [caught EXCEPT ![c] = TRUE]
                     /\ isLoading' = FALSE
                     /\ pc' = [pc EXCEPT ![c] = "done"]
           /\ UNCHANGED <<chatHistory, audio, urls, envOk, nclears, cur, reader, ttsIdx, trace,
                          frames, clicks>>

\* the send button, disabled while isLoading
ClickSend == ~isLoading /\ sendMessage

\* @keyup.enter on the input
PressEnter == sendMessage

\* the exposed sendMessage, called by a parent component
ExposedSendMessage == sendMessage

\* v-model: the user edits the input
InputTexts == {"", " \t", "hi"}

\* (the input is followed while a call can still be made)
TypeInput ==
  \E t \in InputTexts :
    /\ ncalls < MaxCalls
    /\ t # inputMessage
    /\ inputMessage' = t
    /\ UNCHANGED <<messages, isLoading, chatHistory, audio, urls, alerts, envOk, ncalls, nclears,
                   pc, cur, reader, ttsIdx, trace, caught, frames, clicks>>

\* clearHistory()
clearHistory ==
  /\ nclears < MaxClears
  /\ nclears' = nclears + 1
  /\ messages' = <<SystemMessage>>
  /\ chatHistory' = NoItem
  /\ UNCHANGED <<inputMessage, isLoading, audio, urls, alerts, envOk, ncalls, pc,
                 cur, reader, ttsIdx, trace, caught, frames, clicks>>

\* fetch rejects, or the response is not ok (and response.text() settles), or
\* it has no body: the throw lands in the catch block
FetchFail(c) ==
  /\ pc[c] = "fetch"
  /\ Fail(c)
  /\ UNCHANGED <<inputMessage, chatHistory, audio, urls, envOk, ncalls, nclears, cur, reader,
                 ttsIdx, trace, frames, clicks>>

\* the bodies the API answers with: their frames and the chunks they arrive in
HelloFrames == <<Frame("delta", "Hel"), Frame("delta", "lo"), Done>>

AppBodies ==
  { [frames |-> <<>>, chunks |-> <<>>],
    [frames |-> HelloFrames,
     chunks |-> <<BodyBytes(HelloFrames)>>] }

\* fetch resolves with an ok response that has a body: push the placeholder,
\* take the reader, enter handleStream up to its first read
FetchOk(c) ==
  /\ pc[c] = "fetch"
  /\ \E body \in AppBodies :
       /\ frames' = [frames EXCEPT ![c] = body.frames]
       /\ reader' = [reader EXCEPT ![c] = body.chunks]
  /\ messages' = Append(messages, Message("assistant", "", c))
  /\ cur' = [cur EXCEPT ![c] = ""]
  /\ pc' = [pc EXCEPT ![c] = "read"]
  /\ UNCHANGED <<inputMessage, isLoading, chatHistory, audio, urls, alerts, envOk,
                 ncalls, nclears, ttsIdx, trace, caught, clicks>>

(***************************************************************************)
(* handleStream                                                            *)
(***************************************************************************)

\* reader.read() resolves with a chunk: the while loop's body up to the next
\* read
HS_Chunk(c) ==
  /\ pc[c] = "read"
  /\ reader[c] # <<>>
  /\ \E st \in {ProcessChunk([cur |-> cur[c], msgs |-> messages, store |-> chatHistory,
                              log |-> trace[c]], Head(reader[c]))} :
       /\ cur' = [cur EXCEPT ![c] = st.cur]
       /\ messages' = st.msgs
       /\ chatHistory' = st.store
       /\ trace' = [trace EXCEPT ![c] = st.log]
  /\ reader' = [reader EXCEPT ![c] = Tail(@)]
  /\ UNCHANGED <<inputMessage, isLoading, audio, urls, alerts, envOk, ncalls, nclears, pc,
                 ttsIdx, caught, frames, clicks>>

\* a reducer that completes without the accumulated text
CompletionWithoutText(buf, msgs) == Ev("complete", "", buf, Len(msgs))

\* the call textToSpeech(currentMessage, messages.value.length - 1) made at
\* end-of-data (i counts the list from 1)
Completion(buf, msgs) == Ev("complete", buf, buf, Len(msgs))

\* reader.read() resolves with done: textToSpeech(currentMessage, last index)
\* up to its fetch, or to its return (and then sendMessage's) where the
\* message is already playing or already has audio
HS_Done(c) ==
  /\ pc[c] = "read"
  /\ reader[c] = <<>>
  /\ trace' = [trace EXCEPT ![c] = Append(@, Completion(cur[c], messages))]
  /\ ttsIdx' = [ttsIdx EXCEPT ![c] = Len(messages)]
  /\ \E fetches \in BOOLEAN :
       /\ textToSpeech(Len(messages), c, fetches)
       /\ IF fetches
            THEN /\ pc' = [pc EXCEPT ![c] = "ttsFetch"]
                 /\ UNCHANGED isLoading
            ELSE Return(c)
  /\ UNCHANGED <<inputMessage, chatHistory, urls, envOk, ncalls, nclears, cur, reader,
                 caught, frames, clicks>>

\* reader.read() rejects: the outer catch logs the error and handleStream
\* returns normally
HS_ReadFail(c) ==
  /\ pc[c] = "read"
  /\ trace' = [trace EXCEPT ![c] = Append(@, Ev("readfail", "", cur[c], 0))]
  /\ Return(c)
  /\ UNCHANGED <<messages, inputMessage, chatHistory, audio, urls, alerts, envOk, ncalls, nclears, cur, reader, ttsIdx, caught, frames, clicks>>

\* the speech request of call c's textToSpeech fails (fetch rejects, the
\* response is not ok, or blob() rejects): its catch alerts
TTS_Fail(c) ==
  /\ pc[c] = "ttsFetch"
  /\ alerts' = Append(alerts, [kind |-> "speech", call |-> c])
  /\ Return(c)
  /\ UNCHANGED <<messages, inputMessage, chatHistory, audio, urls, envOk, ncalls, nclears,
                 cur, reader, ttsIdx, trace, caught, frames, clicks>>

\* the speech request succeeds: keep the object URL on the message and play
\* it; a messageIndex that is no longer in the list throws into the catch
TTS_Ok(c) ==
  /\ pc[c] = "ttsFetch"
  /\ urls' = urls + 1
  /\ IF ttsIdx[c] \in DOMAIN messages
       THEN LET kept == [messages EXCEPT ![ttsIdx[c]] = SetAudioUrl(@, urls + 1)]
                played == playAudio(kept, audio, Str(BlobUrl(urls + 1)), ttsIdx[c], TRUE)
            IN  /\ messages' = played.msgs
                /\ audio' = played.audio
                /\ UNCHANGED alerts
       ELSE /\ alerts' = Append(alerts, [kind |-> "speech", call |-> c])
            /\ UNCHANGED <<messages, audio>>
  /\ Return(c)
  /\ UNCHANGED <<inputMessage, chatHistory, envOk, ncalls, nclears, cur, reader, ttsIdx,
                 trace, caught, frames, clicks>>

\* the audio plays to its end: the onended handler set by playAudio, then
\* handleAudioEnded's stopPlaying()
AudioEnded ==
  /\ audio.playing
  /\ audio' = [audio EXCEPT !.playing = FALSE]
  /\ messages' = IF audio.onended \in DOMAIN messages
                   THEN [messages EXCEPT ![audio.onended] = SetIsPlaying(@, FALSE)]
                   ELSE messages
  /\ UNCHANGED <<inputMessage, isLoading, chatHistory, urls, alerts, envOk, ncalls, nclears, pc, cur, reader, ttsIdx, trace, caught, frames, clicks>>

(***************************************************************************)
(* The play button of an assistant message: textToSpeech(message.content,  *)
(* index).  clicks lists the clicks so far, each with its messageIndex     *)
(* and whether a speech request is pending for it.                         *)
(***************************************************************************)
MaxPlays == 1

\* a click on the play button of message i, which only an assistant message
\* has: textToSpeech up to its fetch or its return
ClickPlay(i) ==
  /\ i \in DOMAIN messages
  /\ HasRole(messages[i], "assistant")
  /\ Len(clicks) < MaxPlays
  /\ \E fetches \in BOOLEAN :
       /\ textToSpeech(i, 0, fetches)
       /\ clicks' = Append(clicks, [i |-> i, pending |-> fetches])
  /\ UNCHANGED <<inputMessage, isLoading, chatHistory, urls, envOk, ncalls, nclears,
                 pc, cur, reader, ttsIdx, trace, caught, frames>>

\* the speech request of click k fails: the catch alerts
ClickFetchFail(k) ==
  /\ k \in DOMAIN clicks
  /\ clicks[k].pending
  /\ clicks' = [clicks EXCEPT ![k].pending = FALSE]
  /\ alerts' = Append(alerts, [kind |-> "speech", call |-> 0])
  /\ UNCHANGED <<messages, inputMessage, isLoading, chatHistory, audio, urls, envOk, ncalls,
                 nclears, pc, cur, reader, ttsIdx, trace, caught, frames>>

\* the speech request of click k succeeds: keep the object URL on the
\* message and play it; a messageIndex that is no longer in the list throws
\* into the catch
ClickFetchOk(k) ==
  /\ k \in DOMAIN clicks
  /\ clicks[k].pending
  /\ clicks' = [clicks EXCEPT ![k].pending = FALSE]
  /\ urls' = urls + 1
  /\ IF clicks[k].i \in DOMAIN messages
       THEN LET kept == [messages EXCEPT ![clicks[k].i] = SetAudioUrl(@, urls + 1)]
                played == playAudio(kept, audio, Str(BlobUrl(urls + 1)), clicks[k].i, TRUE)
            IN  /\ messages' = played.msgs
                /\ audio' = played.audio
                /\ UNCHANGED alerts
       ELSE /\ alerts' = Append(alerts, [kind |-> "speech", call |-> 0])
            /\ UNCHANGED <<messages, audio>>
  /\ UNCHANGED <<inputMessage, isLoading, chatHistory, envOk, ncalls, nclears, pc, cur,
                 reader, ttsIdx, trace, caught, frames>>

(***************************************************************************)
(* The component: any interleaving of the user's and the network's events  *)
(***************************************************************************)
\* what onMounted may find in localStorage: no item, a list the component
\* stored in an earlier session, or an item that is not JSON
StoredItems == {NoItem, Stringify(Loaded("false", EarlierUrls)), "[{\"role\":"}

\* onMounted has run
Init ==
  /\ \E item \in StoredItems :
       /\ chatHistory = item
       /\ messages = Mounted(item)
  /\ urls = EarlierUrls
  /\ inputMessage = ""
  /\ isLoading = FALSE
  /\ audio = NoAudio
  /\ alerts = <<>>
  /\ envOk \in BOOLEAN
  /\ ncalls = 0
  /\ nclears = 0
  /\ pc = [c \in Calls |-> "idle"]
  /\ cur = [c \in Calls |-> ""]
  /\ reader = [c \in Calls |-> <<>>]
  /\ ttsIdx = [c \in Calls |-> 0]
  /\ trace = [c \in Calls |-> <<>>]
  /\ caught = [c \in Calls |-> FALSE]
  /\ frames = [c \in Calls |-> <<>>]
  /\ clicks = <<>>

Next ==
  \/ TypeInput
  \/ ClickSend
  \/ PressEnter
  \/ ExposedSendMessage
  \/ clearHistory
  \/ AudioEnded
  \/ \E i \in DOMAIN messages : ClickPlay(i)
  \/ \E k \in 1..MaxPlays : ClickFetchFail(k)
  \/ \E k \in 1..MaxPlays : ClickFetchOk(k)
  \/ \E c \in Calls : FetchFail(c)
  \/ \E c \in Calls : FetchOk(c)
  \/ \E c \in Calls : HS_Chunk(c)
  \/ \E c \in Calls : HS_Done(c)
  \/ \E c \in Calls : HS_ReadFail(c)
  \/ \E c \in Calls : TTS_Fail(c)
  \/ \E c \in Calls : TTS_Ok(c)

Spec == Init /\ [][Next]_vars

\* a pending read of call c settles: the steps of HS_Chunk(c), HS_Done(c) and
\* HS_ReadFail(c) are the steps from a pending read that shorten reader[c]
\* or leave the read loop, and one of the three is enabled exactly while
\* the read is pending.  Weak fairness of their disjunction is written out
\* below with this action and that enabling condition.
ReadSettles(c) == pc[c] = "read" /\ (pc'[c] # "read" \/ reader'[c] # reader[c])

\* the network settles every pending promise: each pending fetch resolves or
\* rejects, each pending read resolves (with a chunk or with done) or rejects
Settles(c) ==
  /\ WF_vars(FetchFail(c) \/ FetchOk(c))
  /\ ([]<>(pc[c] # "read") \/ []<><<ReadSettles(c)>>_vars)
  /\ WF_vars(TTS_Fail(c) \/ TTS_Ok(c))

SpecLive == Spec /\ \A c \in Calls : Settles(c)

(***************************************************************************)
(* handleStream alone: call 1 has pushed its placeholder and entered       *)
(* handleStream on a body; the user and other calls stay away.  A read     *)
(* resolves with the next chunk, resolves with done after the last one, or *)
(* rejects; the speech request made at end-of-data fails or succeeds, and  *)
(* the audio it starts plays to its end.                                   *)
(***************************************************************************)
MaxFrames == 3

MaxChunks == 2

\* the frames a body is made of
StreamFrames ==
  { Frame("delta", "Hel"),
    Frame("delta", "lo"),
    Done,
    Frame("malformed", "data: {\"choices\":[{\"delta\""),
    Frame("malformed", "data: {\"error\":\"overloaded\"}"),
    Frame("nodelta", "data: {\"choices\":[{\"delta\":{\"role\":\"assistant\"}}]}"),
    Frame("other", ": keep-alive") }

\* the sequences of at most n frames
RECURSIVE FrameSeqs(_)
FrameSeqs(n) ==
  IF n = 0 THEN {<<>>}
  ELSE FrameSeqs(n - 1) \cup
       {Append(fs, f) : fs \in {gs \in FrameSeqs(n - 1) : Len(gs) = n - 1}, f \in StreamFrames}

\* the bodies whose chunks are cut at any byte
CutFrames ==
  { HelloFrames,
    <<Frame("delta", "caf@"), Done>> }

\* the state in which call 1 reads the body of frames fs from chunks
Streaming(fs, chunks) ==
  /\ messages = <<SystemMessage, Message("user", "hi", 0), Message("assistant", "", 1)>>
  /\ inputMessage = ""
  /\ isLoading = TRUE
  /\ chatHistory = NoItem
  /\ audio = NoAudio
  /\ urls = EarlierUrls
  /\ alerts = <<>>
  /\ envOk = TRUE
  /\ ncalls = 1
  /\ nclears = 0
  /\ pc = [c \in Calls |-> IF c = 1 THEN "read" ELSE "idle"]
  /\ cur = [c \in Calls |-> ""]
  /\ reader = [c \in Calls |-> IF c = 1 THEN chunks ELSE <<>>]
  /\ ttsIdx = [c \in Calls |-> 0]
  /\ trace = [c \in Calls |-> <<>>]
  /\ caught = [c \in Calls |-> FALSE]
  /\ frames = [c \in Calls |-> IF c = 1 THEN fs ELSE <<>>]
  /\ clicks = <<>>

NextStream ==
  \/ \E c \in Calls : HS_Chunk(c)
  \/ \E c \in Calls : HS_Done(c)
  \/ \E c \in Calls : HS_ReadFail(c)
  \/ \E c \in Calls : TTS_Fail(c)
  \/ \E c \in Calls : TTS_Ok(c)
  \/ AudioEnded

\* frames delivered as whole lines, in any grouping
InitStream == \E fs \in FrameSeqs(MaxFrames) : \E chunks \in LineChunkings(fs) :
                Streaming(fs, chunks)

SpecStream == InitStream /\ [][NextStream]_vars

\* bodies cut into chunks at any byte
InitCut == \E fs \in CutFrames : \E chunks \in ByteChunkings(BodyBytes(fs), MaxChunks) :
             Streaming(fs, chunks)

SpecCut == InitCut /\ [][NextStream]_vars

(***************************************************************************)
(* handleStream alone on frames whose content is any JSON value: the code  *)
(* tests `if (content)` and appends with `+=`, whatever the value's type.  *)
(***************************************************************************)

\* a data line whose delta has the content written as the JSON text v
ContentLine(v) == "data: {\"choices\":[{\"delta\":{\"content\":" \o v \o "}}]}"

ValueFrames ==
  { Frame("delta", "Hel"),
    Frame("delta", "lo"),
    Frame("value", ContentLine("\"\"")),
    Frame("value", ContentLine("[]")),
    Frame("value", ContentLine("{\"toString\":1}")),
    Frame("nodelta", "data: {\"choices\":[{\"delta\":{\"role\":\"assistant\"}}]}"),
    Frame("other", ": keep-alive") }

\* the sequences of at most n frames of the set S
RECURSIVE FrameSeqsOf(_, _)
FrameSeqsOf(S, n) ==
  IF n = 0 THEN {<<>>}
  ELSE FrameSeqsOf(S, n - 1) \cup
       {Append(fs, f) : fs \in {gs \in FrameSeqsOf(S, n - 1) : Len(gs) = n - 1}, f \in S}

InitValues == \E fs \in FrameSeqsOf(ValueFrames, MaxFrames) : \E chunks \in LineChunkings(fs) :
                Streaming(fs, chunks)

SpecValues == InitValues /\ [][NextStream]_vars

(***************************************************************************)
(* Playback: the list loaded on mount holds an earlier answer, stored with  *)
(* whatever playback fields it had when it was saved, and call 1 streams   *)
(* the next answer; from there on the component runs as in Spec.           *)
(***************************************************************************)

InitAudio ==
  /\ \E p \in {"undefined", "true", "false"} : \E u \in 0..EarlierUrls :
       /\ messages = Mounted(Stringify(Loaded(p, u)))
                       \o <<Message("user", "hi", 0), Message("assistant", "", 1)>>
       /\ chatHistory = Stringify(Loaded(p, u))
  /\ urls = EarlierUrls
  /\ inputMessage = ""
  /\ isLoading = TRUE
  /\ audio = NoAudio
  /\ alerts = <<>>
  /\ envOk = TRUE
  /\ ncalls = 1
  /\ nclears = 0
  /\ pc = [c \in Calls |-> IF c = 1 THEN "read" ELSE "idle"]
  /\ cur = [c \in Calls |-> ""]
  /\ reader = [c \in Calls |-> IF c = 1 THEN <<BodyBytes(HelloFrames)>> ELSE <<>>]
  /\ ttsIdx = [c \in Calls |-> 0]
  /\ trace = [c \in Calls |-> <<>>]
  /\ caught = [c \in Calls |-> FALSE]
  /\ frames = [c \in Calls |-> IF c = 1 THEN HelloFrames ELSE <<>>]
  /\ clicks = <<>>

SpecAudio == InitAudio /\ [][Next]_vars

(***************************************************************************)
(* What a trace shows                                                      *)
(***************************************************************************)

\* the x of the entries of tr whose e is kind, in order
Shown(tr, kind) ==
  LET sel == SelectSeq(tr, LAMBDA ev : ev.e = kind)
  IN  [i \in 1..Len(sel) |-> sel[i].x]

\* the buffers of the update events of tr
UpdateBufs(tr) == Shown(tr, "update")

\* call c's handleStream has seen end-of-data
Completed(c) == \E i \in DOMAIN trace[c] : trace[c][i].e = "complete"

\* a read of call c's reader has failed
ReadFailed(c) == \E i \in DOMAIN trace[c] : trace[c][i].e = "readfail"

\* the text deltas of the frames fs, in order
Texts(fs) ==
  LET sel == SelectSeq(fs, LAMBDA f : f.k = "delta")
  IN  [i \in 1..Len(sel) |-> sel[i].x]

\* ds[1] \o ... \o ds[n]
RECURSIVE ConcatFirst(_, _)
ConcatFirst(ds, n) == IF n = 0 THEN "" ELSE ConcatFirst(ds, n - 1) \o ds[n]

\* the buffers d1, d1 d2, ..., d1 ... dn
PrefixBufs(ds) == [k \in 1..Len(ds) |-> ConcatFirst(ds, k)]

\* fs is text deltas followed by the sentinel
WellFormedRun(fs) ==
  /\ fs # <<>>
  /\ fs[Len(fs)] = Done
  /\ \A i \in 1..(Len(fs) - 1) : fs[i].k = "delta"

\* handleStream on the bytes of fs delivered as a single chunk
OneChunk(fs) ==
  ProcessChunk([cur |-> "", msgs |-> <<Message("assistant", "", 0)>>, store |-> NoItem,
                log |-> <<>>], BodyBytes(fs))

\* fs without its malformed frames
WithoutMalformed(fs) == SelectSeq(fs, LAMBDA f : f.k # "malformed")

\* entry i of tr is the for loop taking the line 'data: [DONE]'
SentinelLine(tr, i) == tr[i].e = "line" /\ tr[i].x = "data: [DONE]"

(***************************************************************************)
(* Claims                                                                  *)
(***************************************************************************)

\* C1: however the bytes of a body are cut into chunks, the text handleStream
\* has left in the last message at end-of-data is the text it leaves when the
\* same bytes arrive as a single chunk.
C1_SameTextAsOneChunk ==
  \A c \in Calls :
    Completed(c) =>
      /\ cur[c] = OneChunk(frames[c]).cur
      /\ GetProp(messages[Len(messages)], "content") = Str(OneChunk(frames[c]).cur)

\* C2: for text deltas d1..dn, each a complete line, followed by the
\* sentinel, the updates so far are the buffers d1, d1 d2, ... in order, and
\* at end-of-data there are exactly n of them and the one completion carries
\* d1 ... dn.
C2_UpdatesCarryFullBuffer ==
  \A c \in Calls :
    WellFormedRun(frames[c]) =>
      LET ups == UpdateBufs(trace[c])
          want == PrefixBufs(Texts(frames[c]))
      IN  /\ Len(ups) <= Len(want)
          /\ ups = SubSeq(want, 1, Len(ups))
          /\ Completed(c) =>
               /\ ups = want
               /\ Shown(trace[c], "complete") = <<ConcatFirst(Texts(frames[c]), Len(want))>>

C2_Witness ==
  /\ frames[1] = HelloFrames
  /\ Completed(1)
  /\ UpdateBufs(trace[1]) = <<"Hel", "Hello">>
  /\ Shown(trace[1], "complete") = <<"Hello">>

\* C3: malformed frames are skipped without aborting the stream: at
\* end-of-data the updates and the final text are those of the same frames
\* without the malformed ones, and every malformed frame was caught.
C3_MalformedFramesSkipped ==
  \A c \in Calls :
    Completed(c) =>
      /\ Bind(OneChunk(WithoutMalformed(frames[c])), LAMBDA clean :
            /\ UpdateBufs(trace[c]) = UpdateBufs(clean.log)
            /\ cur[c] = clean.cur)
      /\ GetProp(messages[Len(messages)], "content") = Str(cur[c])
      /\ Len(Shown(trace[c], "caught"))
           = Len(frames[c]) - Len(WithoutMalformed(frames[c]))

C3_Witness ==
  /\ Len(frames[1]) = 3
  /\ frames[1][1] = Frame("delta", "Hel")
  /\ frames[1][2].k = "malformed"
  /\ frames[1][3] = Frame("delta", "lo")
  /\ Len(reader[1]) = 0
  /\ Completed(1)
  /\ UpdateBufs(trace[1]) = <<"Hel", "Hello">>

\* C4: the line 'data: [DONE]' is not content: taking it appends nothing to
\* the buffer, makes no update and does not reach JSON.parse (what follows it
\* in the trace is the next line, the completion or a failed read, with the
\* same buffer).
C4_SentinelIsNotContent ==
  \A c \in Calls : \A i \in DOMAIN trace[c] :
    (SentinelLine(trace[c], i) /\ i < Len(trace[c])) =>
      /\ trace[c][i + 1].e \in {"line", "complete", "readfail"}
      /\ trace[c][i + 1].cur = trace[c][i].cur

C4_Witness ==
  \E i \in DOMAIN trace[1] :
    /\ SentinelLine(trace[1], i)
    /\ trace[1][i].cur = "Hello"
    /\ i < Len(trace[1])
    /\ Completed(1)
    /\ cur[1] = "Hello"

\* C5: once the line 'data: [DONE]' has been taken, nothing that arrives
\* after it makes an update or changes the buffer.
C5_NothingAfterSentinel ==
  \A c \in Calls : \A i \in DOMAIN trace[c] : \A j \in DOMAIN trace[c] :
    (SentinelLine(trace[c], i) /\ i < j) =>
      /\ trace[c][j].e # "update"
      /\ trace[c][j].cur = trace[c][i].cur

\* C6: a call whose first read fails returns with no update made and with
\* its error propagated to sendMessage: the catch block ran and raised its
\* one notice.
C6_FirstReadFailurePropagates ==
  \A c \in Calls :
    (pc[c] = "done" /\ trace[c] # <<>> /\ trace[c][1].e = "readfail") =>
      /\ UpdateBufs(trace[c]) = <<>>
      /\ caught[c]
      /\ Len(SelectSeq(alerts, LAMBDA a : a.call = c)) = 1

\* C7: when a call whose read failed has returned, the placeholder it pushed
\* is not in the list and a notice has been raised for it.
C7_ReadFailureRollsBack ==
  \A c \in Calls :
    (pc[c] = "done" /\ ReadFailed(c)) =>
      /\ \A i \in DOMAIN messages : messages[i].owner # c
      /\ \E i \in DOMAIN alerts : alerts[i].call = c

\* C8: at most one call is delivering updates, and the placeholder of a call
\* that is delivering updates is the last message.
C8_InProgressIsLast ==
  /\ Cardinality({c \in Calls : pc[c] = "read"}) <= 1
  /\ \A c \in Calls : pc[c] = "read" => messages[Len(messages)].owner = c

\* C9: at most one call is between issuing its request and the end of its
\* handleStream.
C9_OneActiveStream == Cardinality({c \in Calls : Running(c)}) <= 1

\* the roles and contents of a list
Contents(msgs) ==
  [i \in DOMAIN msgs |-> <<GetProp(msgs[i], "role"), GetProp(msgs[i], "content")>>]

\* C10: after every step other than a reset that changes the roles or
\* contents of the list, the stored item is the list's JSON text.
C10_PersistedAfterEveryMutation ==
  [][(nclears' = nclears /\ Contents(messages') # Contents(messages))
       => chatHistory' = Stringify(messages')]_vars

\* C11: a step that is not a reset leaves the content of every system and
\* user message as it was: only an assistant message's content is changed.
C11_OnlyAssistantContentChanges ==
  [][nclears' = nclears =>
       \A i \in DOMAIN messages :
         (i \in DOMAIN messages' /\ ~HasRole(messages[i], "assistant")) =>
           /\ GetProp(messages'[i], "role") = GetProp(messages[i], "role")
           /\ GetProp(messages'[i], "content") = GetProp(messages[i], "content")]_vars

\* the positions of tr whose entry is of kind
At(tr, kind) == {i \in DOMAIN tr : tr[i].e = kind}

\* C12: a stream that has seen end-of-data has made exactly one completion,
\* as the last thing it did (after every update, with no update after it),
\* on the last message index and carrying the accumulated text, which is the
\* text of the last update and the content of that message; a stream that
\* has left its read loop has either completed or had a read fail, and a
\* stream whose read failed makes no completion.
C12_OneCompletionLast ==
  \A c \in Calls :
    /\ pc[c] \in {"ttsFetch", "done"} => (Completed(c) # ReadFailed(c))
    /\ pc[c] = "read" => ~Completed(c) /\ ~ReadFailed(c)
    /\ Completed(c) =>
         LET tr == trace[c]
             fin == tr[Len(tr)]
             ups == UpdateBufs(tr)
         IN  /\ At(tr, "complete") = {Len(tr)}
             /\ \A u \in At(tr, "update") : u < Len(tr)
             /\ fin.x = cur[c]
             /\ ups # <<>> => fin.x = ups[Len(ups)]
             /\ fin.i = Len(messages)
             /\ GetProp(messages[fin.i], "content") = Str(fin.x)

C12_Witness ==
  /\ frames[1] = HelloFrames
  /\ pc[1] = "done"
  /\ Cardinality(At(trace[1], "update")) = 2
  /\ trace[1][Len(trace[1])] = Ev("complete", "Hello", "Hello", 3)
  /\ GetProp(messages[3], "content") = Str("Hello")

\* a is a prefix of b
IsPrefix(a, b) == Len(a) <= Len(b) /\ SubSeq(b, 1, Len(a)) = a

\* the content of the frame whose payload is data
ContentOf(data) == DeltaContent(JSONParse(data).v).v

\* C13 (as amended): the buffer is never shortened or reset: along a
\* stream's trace currentMessage only grows by appending, each update's
\* buffer has the previous update's buffer as a prefix, and as a proper
\* prefix where the update's delta content is a string.
C13_BufferGrowsByAppending ==
  \A c \in Calls :
    LET tr == trace[c]
        ups == UpdateBufs(tr)
    IN  /\ \A i \in 1..(Len(tr) - 1) : IsPrefix(tr[i].cur, tr[i + 1].cur)
        /\ \A k \in 1..(Len(ups) - 1) : IsPrefix(ups[k], ups[k + 1])
        /\ \A u \in At(tr, "update") :
             /\ tr[u - 1].e = "parse"
             /\ IsPrefix(tr[u - 1].cur, tr[u].x)
             /\ ContentOf(tr[u - 1].x).t = "str" => tr[u - 1].cur # tr[u].x

C13_Witness ==
  /\ frames[1] = <<Frame("delta", "Hel"), Frame("value", ContentLine("[]")),
                   Frame("delta", "lo")>>
  /\ Completed(1)
  /\ UpdateBufs(trace[1]) = <<"Hel", "Hel", "Hello">>

\* C13 (as stated): of two consecutive updates of a stream the earlier
\* buffer is a proper prefix of the later one.
C13_ProperPrefix ==
  \A c \in Calls :
    LET ups == UpdateBufs(trace[c])
    IN  \A k \in 1..(Len(ups) - 1) : IsPrefix(ups[k], ups[k + 1]) /\ ups[k] # ups[k + 1]

\* the list of a stream left alone whose buffer is buf
ListWith(buf) == <<SystemMessage, Message("user", "hi", 0), Message("assistant", buf, 1)>>

\* C14: every update is followed at once by one save of the list that holds
\* the new buffer and then by one scroll, before the next line is taken or
\* the stream ends; there are as many saves and scrolls as updates, and
\* the stored item is the list with the buffer of the last update.
C14_PersistThenScroll ==
  \A c \in Calls :
    LET tr == trace[c]
        ups == UpdateBufs(tr)
    IN  /\ Cardinality(At(tr, "save")) = Len(ups)
        /\ Cardinality(At(tr, "scroll")) = Len(ups)
        /\ \A u \in At(tr, "update") :
             /\ u + 2 <= Len(tr)
             /\ tr[u + 1].e = "save"
             /\ tr[u + 1].x = Stringify(ListWith(tr[u].x))
             /\ tr[u + 2].e = "scroll"
             /\ u + 3 <= Len(tr) => tr[u + 3].e \in {"line", "complete", "readfail"}
        /\ ups # <<>> =>
             chatHistory = Stringify(ListWith(ups[Len(ups)]))

C14_Witness ==
  /\ frames[1] = HelloFrames
  /\ pc[1] = "read"
  /\ UpdateBufs(trace[1]) = <<"Hel", "Hello">>
  /\ Cardinality(At(trace[1], "save")) = 2
  /\ Cardinality(At(trace[1], "scroll")) = 2
  /\ chatHistory = Stringify(ListWith("Hello"))

\* lines without the 'data: ' prefix, and well-formed frames whose delta has
\* no content or an empty one
NoTextLines ==
  { ": keep-alive", "", "event: message", "data:", " data: {}",
    "data: {\"choices\":[{\"delta\":{\"role\":\"assistant\"}}]}",
    "data: {\"choices\":[{\"delta\":{}}]}",
    ContentLine("\"\""),
    ContentLine("null"),
    "data: {\"choices\":[{\"delta\":{}}]}\r",
    "data: {\"choices\" :\t[ {\"delta\":{\"content\":\"\"}}]}\r" }

\* C15: a line without the 'data: ' prefix, and a well-formed frame whose
\* delta has no text, make no update: in the trace such a line is followed
\* by the next line or the end of the stream (after its parse, if it has
\* the prefix) with the same buffer, and taken in any state of a stream it
\* leaves the buffer, the list and the stored item as they are, without an
\* update, a save or a caught failure.
C15_NoTextNoUpdate ==
  \A c \in Calls :
    LET tr == trace[c]
        st == [cur |-> cur[c], msgs |-> messages, store |-> chatHistory, log |-> <<>>]
    IN  /\ \A i \in At(tr, "line") :
             tr[i].x \in NoTextLines =>
               /\ \A j \in {i + 1, i + 2} \cap DOMAIN tr :
                    /\ tr[j].e \in {"line", "parse", "complete", "readfail"}
                    /\ tr[j].cur = tr[i].cur
               /\ (i + 2 \in DOMAIN tr /\ tr[i + 1].e = "parse") =>
                    tr[i + 2].e \in {"line", "complete", "readfail"}
        /\ pc[c] = "read" =>
             \A line \in NoTextLines :
               Bind(LineStep(st, line), LAMBDA r :
                 /\ r.st.cur = st.cur
                 /\ r.st.msgs = st.msgs
                 /\ r.st.store = st.store
                 /\ ~r.caught
                 /\ At(r.st.log, "update") \cup At(r.st.log, "save") = {})

C15_Witness ==
  /\ frames[1] = <<Frame("delta", "Hel"), Frame("value", ContentLine("\"\"")),
                   Frame("other", ": keep-alive")>>
  /\ reader[1] = <<>>
  /\ pc[1] = "read"
  /\ Cardinality(At(trace[1], "line")) >= 3
  /\ UpdateBufs(trace[1]) = <<"Hel">>
  /\ cur[1] = "Hel"
  /\ messages = ListWith("Hel")
  /\ chatHistory = Stringify(ListWith("Hel"))

\* C16: a reset leaves exactly the system message and no stored item, and
\* while the list is still the one the reset left, a step of a stream that
\* was reading before the reset (its placeholder is gone with the old list)
\* changes neither the list nor the stored item.
C16_ResetIsWholesale ==
  [][/\ nclears' # nclears =>
          messages' = <<SystemMessage>> /\ chatHistory' = NoItem
     /\ \A c \in Calls :
          (/\ nclears >= 1 /\ nclears' = nclears
           /\ messages = <<SystemMessage>> /\ chatHistory = NoItem
           /\ pc[c] = "read" /\ trace'[c] # trace[c]) =>
            messages' = <<SystemMessage>> /\ chatHistory' = NoItem]_vars

\* C17: a call that fails before it has pushed its placeholder removes no
\* message: the step in which a call fails at its request leaves the list as
\* it was, and the step in which a call fails for want of configuration
\* adds its user message and nothing else.
C17_FailureBeforePlaceholderRemovesNothing ==
  [][\A c \in Calls :
       /\ (pc[c] = "fetch" /\ pc'[c] = "done") => messages' = messages
       /\ (pc[c] = "idle" /\ pc'[c] = "done") =>
            messages' = Append(messages, Message("user", inputMessage, 0))]_vars

\* C18: every call that has passed the blank check returns, and the step in
\* which it returns leaves isLoading false, whichever way it ends.
C18_EveryCallReturnsNotLoading ==
  /\ \A c \in Calls : Running(c) ~> (pc[c] = "done")
  /\ [][\A c \in Calls : (pc[c] # "done" /\ pc'[c] = "done") => ~isLoading']_vars

C18_Witness ==
  /\ pc[1] = "done" /\ Completed(1)
  /\ pc[2] = "done" /\ ReadFailed(2)
  /\ ~isLoading

\* C19: sendMessage on an empty or whitespace-only input does nothing: a
\* step of sendMessage (from the button, the Enter key or the exposed
\* method) taken with such an input leaves every variable as it is: no
\* message, no call, no request, the same input, flag and stored item.
C19_BlankInputIsNoOp ==
  [][(inputMessage \in {"", " \t"} /\ (ClickSend \/ PressEnter \/ ExposedSendMessage)) =>
       /\ messages' = messages
       /\ inputMessage' = inputMessage
       /\ isLoading' = isLoading
       /\ chatHistory' = chatHistory
       /\ ncalls' = ncalls
       /\ pc' = pc
       /\ alerts' = alerts]_vars

C19_Witness ==
  /\ inputMessage = " \t"
  /\ ncalls = 1
  /\ pc[1] = "read"
  /\ Len(messages) = 3
  /\ ENABLED PressEnter

\* the indices of the messages whose isPlaying is true
Playing(msgs) == {i \in DOMAIN msgs : GetProp(msgs[i], "isPlaying") = Bool(TRUE)}

\* C20: at most one message is marked as playing, and while the audio
\* element plays, a message marked as playing is the one whose playback was
\* started last (the one the onended handler closes over): starting a
\* message has stopped every other one.
C20_AtMostOnePlaying ==
  /\ Cardinality(Playing(messages)) <= 1
  /\ audio.playing => \A i \in Playing(messages) : i = audio.onended

C20_Witness ==
  /\ Len(messages) = 5
  /\ GetProp(messages[3], "isPlaying") = Bool(FALSE)
  /\ HasAudio(messages[3])
  /\ GetProp(messages[5], "isPlaying") = Bool(TRUE)
  /\ audio.playing
  /\ Str(audio.src) = GetProp(messages[5], "audioUrl")

====
